---- MODULE Spec2Model ----
(***************************************************************************)
(* The book shelf page of shin3mono/shelf (src/index.tsx): the component   *)
(* Home with its local state, the remote table `books`, and the store      *)
(* requests the handlers fetchBooks, addBook and handleDragEnd leave in    *)
(* flight.  Every request is asynchronous: it is served by the store at    *)
(* some later step and (for a select) its reply is delivered to the page   *)
(* at a still later step, so replies can arrive in any order.              *)
(***************************************************************************)
EXTENDS Integers, Sequences, FiniteSets, TLC

VARIABLES
    store,           \* the remote table: store[i] is the row with id i
    books,           \* useState<Book[]>([])
    newUrl,          \* useState('') : the text of the URL input
    showAll,         \* useState(false)
    successMessage,  \* useState('')
    timers,          \* number of setTimeout callbacks not yet run
    fetch,           \* the select issued by fetchBooks on mount
    adds,            \* addBook invocations in flight
    writes,          \* update requests of handleDragEnd in flight
    opsLeft,         \* effective addBook / handleDragEnd invocations still allowed
    faultsLeft,      \* store errors still allowed
    solo,            \* the last reorder started at rest and nothing disturbed it
    ignored,         \* the last step was a drag that handleDragEnd ignored
    asinArg,         \* argument of the extractASIN call under study
    asinRes          \* the results it has returned, <<>> before the call

vars == <<store, books, newUrl, showAll, successMessage, timers, fetch, adds,
          writes, opsLeft, faultsLeft, solo, ignored, asinArg, asinRes>>

(***************************************************************************)
(* Bounds of the model.                                                    *)
(***************************************************************************)
MaxInit == 3       \* rows in the table at mount, small scenarios
MaxOps == 2        \* addBook / handleDragEnd invocations, small scenarios
MaxFaults == 2     \* store errors, small scenarios
BigShelf == 6      \* rows in the table at mount, large scenario
MaxPieces == 4     \* pieces an input of extractASIN is made of

(***************************************************************************)
(* Text.  A string is a sequence of one-character strings.                 *)
(***************************************************************************)
Whitespace == {" "}

UpperAlnum ==
    {"A", "B", "C", "D", "E", "F", "G", "H", "I", "J", "K", "L", "M",
     "N", "O", "P", "Q", "R", "S", "T", "U", "V", "W", "X", "Y", "Z",
     "0", "1", "2", "3", "4", "5", "6", "7", "8", "9"}

AsinLen == 10

SampleUrl ==
    <<"/", "d", "p", "/", "B", "0", "8", "X", "Y", "Z", "A", "B", "1", "2", "/">>

RECURSIVE TrimStart(_)
TrimStart(s) ==
    IF s # <<>> /\ Head(s) \in Whitespace THEN TrimStart(Tail(s)) ELSE s

RECURSIVE TrimEnd(_)
TrimEnd(s) ==
    IF s # <<>> /\ s[Len(s)] \in Whitespace
    THEN TrimEnd(SubSeq(s, 1, Len(s) - 1))
    ELSE s

\* String.prototype.trim
Trim(s) == TrimEnd(TrimStart(s))

(***************************************************************************)
(* extractASIN: url.match(/\/([A-Z0-9]{10})(?:[/?]|$)/), group 1 of the    *)
(* leftmost match.  An argument is [present, text]; a result is            *)
(* [found, asin].                                                          *)
(***************************************************************************)
Absent == [present |-> FALSE, text |-> <<>>]
Given(s) == [present |-> TRUE, text |-> s]
NoMatch == [found |-> FALSE, asin |-> <<>>]
Match(s) == [found |-> TRUE, asin |-> s]

\* The pattern without its end alternative: a faulty variant of MatchesAt.
MatchesAt_NoEnd(s, p) ==
    /\ p + AsinLen + 1 <= Len(s)
    /\ s[p] = "/"
    /\ \A k \in 1..AsinLen : s[p + k] \in UpperAlnum
    /\ s[p + AsinLen + 1] \in {"/", "?"}

\* The pattern matches with its '/' at position p (1-based).
MatchesAt(s, p) ==
    /\ p + AsinLen <= Len(s)
    /\ s[p] = "/"
    /\ \A k \in 1..AsinLen : s[p + k] \in UpperAlnum
    /\ \/ p + AsinLen = Len(s)
       \/ s[p + AsinLen + 1] \in {"/", "?"}

RECURSIVE MatchFrom(_, _)
MatchFrom(s, p) ==
    IF p > Len(s) THEN NoMatch
    ELSE IF MatchesAt(s, p) THEN Match(SubSeq(s, p + 1, p + AsinLen))
    ELSE MatchFrom(s, p + 1)

extractASIN(url) ==
    IF ~url.present \/ url.text = <<>> THEN NoMatch
    ELSE MatchFrom(url.text, 1)

(***************************************************************************)
(* Records and the table.                                                  *)
(***************************************************************************)
Book(id, url, comment, order) ==
    [id |-> id, url |-> url, comment |-> comment, book_order |-> order]

NoComment == ""

Ids(rows) == [i \in 1..Len(rows) |-> rows[i].id]

Min(a, b) == IF a <= b THEN a ELSE b

Rows(t) == {t[i] : i \in 1..Len(t)}

RECURSIVE Ordered(_)
\* every listing of the set S of rows in ascending book_order
Ordered(S) ==
    IF S = {} THEN {<<>>}
    ELSE LET least == {r \in S : \A q \in S : r.book_order <= q.book_order}
         IN  UNION {{<<r>> \o rest : rest \in Ordered(S \ {r})} : r \in least}

\* .from('books').select('*').order('book_order', { ascending: true }):
\* the possible answers; the order among equal book_order is the store's.
Select(t) == Ordered(Rows(t))

\* .insert([{ url, book_order }]): the store assigns the id.
Insert(t, url, order) == Append(t, Book(Len(t) + 1, url, NoComment, order))

\* Without the filter on id: a faulty variant of Update.
Update_AllRows(t, id, order) ==
    [i \in 1..Len(t) |-> [t[i] EXCEPT !.book_order = order]]

\* .update({ book_order }).eq('id', id)
Update(t, id, order) ==
    [i \in 1..Len(t) |-> IF t[i].id = id THEN [t[i] EXCEPT !.book_order = order]
                         ELSE t[i]]

(***************************************************************************)
(* Array helpers used by the handlers (0-based, as in the code).           *)
(***************************************************************************)
\* books.findIndex((b) => b.id === id): -1 when there is none
findIndex(array, id) ==
    LET hits == {i \in 1..Len(array) : array[i].id = id}
    IN  IF hits = {} THEN -1
        ELSE (CHOOSE i \in hits : \A j \in hits : i <= j) - 1

Clamp(x, lo, hi) == IF x < lo THEN lo ELSE IF x > hi THEN hi ELSE x

\* array without its element at the 0-based index f
RemoveAt(array, f) == SubSeq(array, 1, f) \o SubSeq(array, f + 2, Len(array))

\* Exchanges the two elements instead of moving one: a faulty variant of arrayMove.
arrayMove_Swap(array, from, to) ==
    [i \in 1..Len(array) |->
        IF i = from + 1 THEN array[to + 1]
        ELSE IF i = to + 1 THEN array[from + 1]
        ELSE array[i]]

\* arrayMove of @dnd-kit/sortable: a copy of array with the element at index
\* from taken out and put back at index to.
arrayMove(array, from, to) ==
    LET len  == Len(array)
        f    == Clamp(IF from < 0 THEN len + from ELSE from, 0, len - 1)
        rest == RemoveAt(array, f)
        t    == Clamp(IF to < 0 THEN len + to ELSE to, 0, Len(rest))
    IN  SubSeq(rest, 1, t) \o <<array[f + 1]>> \o SubSeq(rest, t + 1, Len(rest))

(***************************************************************************)
(* The view.                                                               *)
(***************************************************************************)
ShelfSize == 5

\* One record short: a faulty variant of visibleBooks.
visibleBooks_Short ==
    IF showAll THEN books ELSE SubSeq(books, 1, Min(ShelfSize - 1, Len(books)))

\* const visibleBooks = showAll ? books : books.slice(0, 5)
visibleBooks ==
    IF showAll THEN books ELSE SubSeq(books, 1, Min(ShelfSize, Len(books)))

SuccessText == "added"

(***************************************************************************)
(* Requests in flight.                                                     *)
(***************************************************************************)
NoOver == 0

Reply(st, ok, rows) == [st |-> st, ok |-> ok, rows |-> rows]

AtRest == fetch.st = "done" /\ adds = {} /\ writes = {}

OpsFor(n) == IF n <= MaxInit THEN MaxOps ELSE 1

FaultsFor(n) == IF n <= MaxInit THEN MaxFaults ELSE 0

InitialStore(n) == [i \in 1..n |-> Book(i, SampleUrl, "memo", i - 1)]

InitSizes == (0..MaxInit) \cup {BigShelf}

TypedUrls == {<<>>, <<" ">>, SampleUrl}

\* Home has mounted: the state hooks hold their initial values and the effect
\* has called fetchBooks, whose select is on its way to the store.
InitHome(n) ==
    /\ store = InitialStore(n)
    /\ books = <<>>
    /\ newUrl = <<>>
    /\ showAll = FALSE
    /\ successMessage = ""
    /\ timers = 0
    /\ fetch = Reply("sent", FALSE, <<>>)
    /\ adds = {}
    /\ writes = {}
    /\ opsLeft = OpsFor(n)
    /\ faultsLeft = FaultsFor(n)
    /\ solo = FALSE
    /\ ignored = FALSE

Init ==
    /\ \E n \in InitSizes : InitHome(n)
    /\ asinArg = Absent
    /\ asinRes = <<>>

(***************************************************************************)
(* fetchBooks.                                                             *)
(***************************************************************************)
\* the store answers the select of fetchBooks
FetchOk ==
    /\ fetch.st = "sent"
    /\ \E rows \in Select(store) : fetch' = Reply("replied", TRUE, rows)
    /\ ignored' = FALSE
    /\ UNCHANGED <<store, books, newUrl, showAll, successMessage, timers, adds,
                   writes, opsLeft, faultsLeft, solo, asinArg, asinRes>>

\* the select of fetchBooks fails
FetchError ==
    /\ fetch.st = "sent"
    /\ faultsLeft > 0
    /\ faultsLeft' = faultsLeft - 1
    /\ fetch' = Reply("replied", FALSE, <<>>)
    /\ ignored' = FALSE
    /\ UNCHANGED <<store, books, newUrl, showAll, successMessage, timers, adds,
                   writes, opsLeft, solo, asinArg, asinRes>>

\* Issues the select again after an error: a faulty variant of FetchDeliver.
FetchDeliver_Retry ==
    /\ fetch.st = "replied"
    /\ books' = IF fetch.ok THEN fetch.rows ELSE books
    /\ fetch' = IF fetch.ok THEN Reply("done", FALSE, <<>>)
                ELSE Reply("sent", FALSE, <<>>)
    /\ ignored' = FALSE
    /\ UNCHANGED <<store, newUrl, showAll, successMessage, timers, adds, writes,
                   opsLeft, faultsLeft, solo, asinArg, asinRes>>

\* fetchBooks resumes after its await: if (!error && data) setBooks(data)
FetchDeliver ==
    /\ fetch.st = "replied"
    /\ books' = IF fetch.ok THEN fetch.rows ELSE books
    /\ fetch' = Reply("done", FALSE, <<>>)
    /\ ignored' = FALSE
    /\ UNCHANGED <<store, newUrl, showAll, successMessage, timers, adds, writes,
                   opsLeft, faultsLeft, solo, asinArg, asinRes>>

(***************************************************************************)
(* addBook.                                                                *)
(***************************************************************************)
AddReq(op, st, url, order, id, ok, rows) ==
    [op |-> op, st |-> st, url |-> url, book_order |-> order, id |-> id,
     ok |-> ok, rows |-> rows]

\* the click on the add button, up to the first await
AddBook ==
    /\ opsLeft > 0
    /\ ignored' = FALSE
    /\ IF Trim(newUrl) = <<>>
       THEN UNCHANGED <<adds, opsLeft, solo>>
       ELSE /\ opsLeft' = opsLeft - 1
            /\ solo' = FALSE
            /\ adds' = adds \cup
                 {AddReq(opsLeft, "insert", newUrl, Len(books), 0, FALSE, <<>>)}
    /\ UNCHANGED <<store, books, newUrl, showAll, successMessage, timers, fetch,
                   writes, faultsLeft, asinArg, asinRes>>

\* the insert succeeds; addBook resumes and issues its select
InsertOk(a) ==
    /\ a \in adds /\ a.st = "insert"
    /\ store' = Insert(store, a.url, a.book_order)
    /\ adds' = (adds \ {a}) \cup
                 {[a EXCEPT !.st = "select", !.id = Len(store) + 1]}
    /\ ignored' = FALSE
    /\ UNCHANGED <<books, newUrl, showAll, successMessage, timers, fetch, writes,
                   opsLeft, faultsLeft, solo, asinArg, asinRes>>

\* Goes on to the select although the insert failed: a faulty variant of InsertError.
InsertError_Proceeds(a) ==
    /\ a \in adds /\ a.st = "insert"
    /\ faultsLeft > 0
    /\ faultsLeft' = faultsLeft - 1
    /\ adds' = (adds \ {a}) \cup {[a EXCEPT !.st = "select"]}
    /\ ignored' = FALSE
    /\ UNCHANGED <<store, books, newUrl, showAll, successMessage, timers, fetch,
                   writes, opsLeft, solo, asinArg, asinRes>>

\* the insert fails; addBook resumes, finds error set and returns
InsertError(a) ==
    /\ a \in adds /\ a.st = "insert"
    /\ faultsLeft > 0
    /\ faultsLeft' = faultsLeft - 1
    /\ adds' = adds \ {a}
    /\ ignored' = FALSE
    /\ UNCHANGED <<store, books, newUrl, showAll, successMessage, timers, fetch,
                   writes, opsLeft, solo, asinArg, asinRes>>

\* the store answers the select of addBook
SelectOk(a) ==
    /\ a \in adds /\ a.st = "select"
    /\ \E rows \in Select(store) :
         adds' = (adds \ {a}) \cup {[a EXCEPT !.st = "reply", !.ok = TRUE, !.rows = rows]}
    /\ ignored' = FALSE
    /\ UNCHANGED <<store, books, newUrl, showAll, successMessage, timers, fetch,
                   writes, opsLeft, faultsLeft, solo, asinArg, asinRes>>

\* the select of addBook fails: data is null
SelectError(a) ==
    /\ a \in adds /\ a.st = "select"
    /\ faultsLeft > 0
    /\ faultsLeft' = faultsLeft - 1
    /\ adds' = (adds \ {a}) \cup {[a EXCEPT !.st = "reply", !.ok = FALSE]}
    /\ ignored' = FALSE
    /\ UNCHANGED <<store, books, newUrl, showAll, successMessage, timers, fetch,
                   writes, opsLeft, solo, asinArg, asinRes>>

\* addBook resumes after its second await: setBooks(data || []), setNewUrl(''),
\* setSuccessMessage(...), setTimeout(...)
AddDeliver(a) ==
    /\ a \in adds /\ a.st = "reply"
    /\ books' = IF a.ok THEN a.rows ELSE <<>>
    /\ newUrl' = <<>>
    /\ successMessage' = SuccessText
    /\ timers' = timers + 1
    /\ adds' = adds \ {a}
    /\ ignored' = FALSE
    /\ UNCHANGED <<store, showAll, fetch, writes, opsLeft, faultsLeft, solo,
                   asinArg, asinRes>>

\* the callback of setTimeout: setSuccessMessage('')
ClearMessage ==
    /\ timers > 0
    /\ timers' = timers - 1
    /\ successMessage' = ""
    /\ ignored' = FALSE
    /\ UNCHANGED <<store, books, newUrl, showAll, fetch, adds, writes, opsLeft,
                   faultsLeft, solo, asinArg, asinRes>>

(***************************************************************************)
(* handleDragEnd.                                                          *)
(***************************************************************************)
VisibleIds == {visibleBooks[i].id : i \in 1..Len(visibleBooks)}

\* Returns only when there is no drop target: a faulty variant of DragIgnored.
DragIgnored_NoSelfCheck(active, over) == over = NoOver

\* if (!over || active.id === over.id) return
DragIgnored(active, over) == over = NoOver \/ active = over

\* the update requests handleDragEnd issues for newBooks, as invocation op
UpdateReqs(op, newBooks) ==
    {[op |-> op, id |-> newBooks[i].id, book_order |-> i - 1] :
        i \in 1..Len(newBooks)}

\* a drag of the item active ends over the item over (NoOver: over nothing)
DragEnd(active, over) ==
    /\ active \in VisibleIds
    /\ over \in VisibleIds \cup {NoOver}
    /\ opsLeft > 0
    /\ ignored' = DragIgnored(active, over)
    /\ IF DragIgnored(active, over)
       THEN UNCHANGED <<books, writes, opsLeft, solo>>
       ELSE LET oldIndex == findIndex(books, active)
                newIndex == findIndex(books, over)
                newBooks == arrayMove(books, oldIndex, newIndex)
            IN  /\ opsLeft' = opsLeft - 1
                /\ solo' = AtRest
                /\ books' = newBooks
                /\ writes' = writes \cup UpdateReqs(opsLeft, newBooks)
    /\ UNCHANGED <<store, newUrl, showAll, successMessage, timers, fetch, adds,
                   faultsLeft, asinArg, asinRes>>

\* Drops an update when a later reorder's update of the same record is still
\* pending, as a store that ordered the writes would: a faulty variant of UpdateOk.
UpdateOk_NewestOnly(w) ==
    /\ w \in writes
    /\ store' = IF \E v \in writes : v.id = w.id /\ v.op < w.op
                THEN store
                ELSE Update(store, w.id, w.book_order)
    /\ writes' = writes \ {w}
    /\ ignored' = FALSE
    /\ UNCHANGED <<books, newUrl, showAll, successMessage, timers, fetch, adds,
                   opsLeft, faultsLeft, solo, asinArg, asinRes>>

\* the store carries out one update
UpdateOk(w) ==
    /\ w \in writes
    /\ store' = Update(store, w.id, w.book_order)
    /\ writes' = writes \ {w}
    /\ ignored' = FALSE
    /\ UNCHANGED <<books, newUrl, showAll, successMessage, timers, fetch, adds,
                   opsLeft, faultsLeft, solo, asinArg, asinRes>>

\* Issues the failed update again: a faulty variant of UpdateError.
UpdateError_Retry(w) ==
    /\ w \in writes
    /\ faultsLeft > 0
    /\ faultsLeft' = faultsLeft - 1
    /\ solo' = FALSE
    /\ ignored' = FALSE
    /\ UNCHANGED <<store, books, newUrl, showAll, successMessage, timers, fetch,
                   adds, writes, opsLeft, asinArg, asinRes>>

\* one update fails; Promise.all rejects and handleDragEnd does nothing more
UpdateError(w) ==
    /\ w \in writes
    /\ faultsLeft > 0
    /\ faultsLeft' = faultsLeft - 1
    /\ writes' = writes \ {w}
    /\ solo' = FALSE
    /\ ignored' = FALSE
    /\ UNCHANGED <<store, books, newUrl, showAll, successMessage, timers, fetch,
                   adds, opsLeft, asinArg, asinRes>>

(***************************************************************************)
(* The toggle button and the URL input.                                    *)
(***************************************************************************)
\* onClick={() => setShowAll((prev) => !prev)}, rendered when books.length > 5
Toggle ==
    /\ Len(books) > ShelfSize
    /\ showAll' = ~showAll
    /\ ignored' = FALSE
    /\ UNCHANGED <<store, books, newUrl, successMessage, timers, fetch, adds,
                   writes, opsLeft, faultsLeft, solo, asinArg, asinRes>>

\* onChange={(e) => setNewUrl(e.target.value)}
TypeUrl(u) ==
    /\ opsLeft > 0
    /\ u # newUrl
    /\ newUrl' = u
    /\ ignored' = FALSE
    /\ UNCHANGED <<store, books, showAll, successMessage, timers, fetch, adds,
                   writes, opsLeft, faultsLeft, solo, asinArg, asinRes>>

Next ==
    \/ FetchOk
    \/ FetchError
    \/ FetchDeliver
    \/ AddBook
    \/ \E a \in adds : InsertOk(a)
    \/ \E a \in adds : InsertError(a)
    \/ \E a \in adds : SelectOk(a)
    \/ \E a \in adds : SelectError(a)
    \/ \E a \in adds : AddDeliver(a)
    \/ ClearMessage
    \/ \E active \in VisibleIds : \E over \in VisibleIds \cup {NoOver} :
         DragEnd(active, over)
    \/ \E w \in writes : UpdateOk(w)
    \/ \E w \in writes : UpdateError(w)
    \/ Toggle
    \/ \E u \in TypedUrls : TypeUrl(u)

Spec == Init /\ [][Next]_vars

(***************************************************************************)
(* C1.  At rest (no store request pending) the book_order values of the    *)
(* persisted records are exactly 0 .. count-1, each used by one record.    *)
(***************************************************************************)
Orders(t) == {t[i].book_order : i \in 1..Len(t)}

C1_DenseAtRest == AtRest => Orders(store) = 0..(Len(store) - 1)

(***************************************************************************)
(* C2.  After Reorder(source, destination) on distinct valid indices the   *)
(* local list is a permutation of the input with the source element at     *)
(* index destination and the other elements in their relative order.       *)
(* As claimed, every local record's book_order is then its index           *)
(* (C2_ReorderRenumbersLocal); as amended, the index is the book_order     *)
(* that handleDragEnd writes to the store for the record, and the local    *)
(* records keep the book_order they had (C2_ReorderMoves).                 *)
(***************************************************************************)
\* the 1-based position of the record with this id
Pos(list, id) == CHOOSE i \in 1..Len(list) : list[i].id = id

\* list2 is list1 with the record active moved to where the record over was
MovedOnto(list1, list2, active, over) ==
    LET src == Pos(list1, active)
        dst == Pos(list1, over)
        others == (1..Len(list1)) \ {src}
    IN  /\ Len(list2) = Len(list1)
        /\ \A i \in 1..Len(list1) : \E j \in 1..Len(list2) : list2[j].id = list1[i].id
        /\ list2[dst].id = active
        /\ \A i, j \in others :
             i < j => Pos(list2, list1[i].id) < Pos(list2, list1[j].id)

\* the requests a step has added carry, for each record of list, its 0-based index
WritesIndexOf(list, before, after) ==
    {[id |-> w.id, book_order |-> w.book_order] : w \in after \ before}
        = {[id |-> list[i].id, book_order |-> i - 1] : i \in 1..Len(list)}

C2_ReorderRenumbersLocal ==
    [][\A active \in VisibleIds : \A over \in VisibleIds \ {active} :
          DragEnd(active, over) =>
              /\ MovedOnto(books, books', active, over)
              /\ \A i \in 1..Len(books') : books'[i].book_order = i - 1]_vars

C2_ReorderMoves ==
    [][\A active \in VisibleIds : \A over \in VisibleIds \ {active} :
          DragEnd(active, over) =>
              /\ MovedOnto(books, books', active, over)
              /\ WritesIndexOf(books', writes, writes')
              /\ \A i \in 1..Len(books) :
                   books'[Pos(books', books[i].id)] = books[i]]_vars

\* [{1,0},{2,1},{3,2}] after Reorder(0 -> 2): the local order is 2, 3, 1, the
\* local records still carry 1, 2, 0, and the writes 2:0, 3:1, 1:2 are pending
C2_Witness ==
    /\ Ids(books) = <<2, 3, 1>>
    /\ [i \in 1..3 |-> books[i].book_order] = <<1, 2, 0>>
    /\ [i \in 1..Len(store) |-> store[i].book_order] = <<0, 1, 2>>
    /\ {[id |-> w.id, book_order |-> w.book_order] : w \in writes}
         = {[id |-> 2, book_order |-> 0], [id |-> 3, book_order |-> 1],
            [id |-> 1, book_order |-> 2]}

(***************************************************************************)
(* C3.  The record Append inserts has book_order equal to the length of    *)
(* the local list at the time of the append, and after a successful append *)
(* (insert and reload both succeed) it is the last record of the local     *)
(* list.                                                                   *)
(***************************************************************************)
C3_AppendedIsLast ==
    [][/\ AddBook => \A a \in adds' \ adds : a.book_order = Len(books)
       /\ \A a \in adds :
            (AddDeliver(a) /\ a.ok) =>
                /\ Len(books') > 0
                /\ books'[Len(books')].id = a.id]_vars

(***************************************************************************)
(* C4.  Append never shortens the local list: whatever the outcome of its  *)
(* insert and of its reload, the list after the append is at least as long *)
(* as it was when the append started.                                      *)
(***************************************************************************)
C4_AppendNeverShrinks ==
    [][\A a \in adds :
          /\ InsertError(a) => Len(books') >= a.book_order
          /\ AddDeliver(a) => Len(books') >= a.book_order]_vars

(***************************************************************************)
(* C5.  When the store reports an error on the insert of Append, nothing   *)
(* changes: local list, URL input and success message stay as they were,   *)
(* no reload is issued and no record is added.                             *)
(***************************************************************************)
\* the step in which the insert of the invocation a comes back with an error
InsertFails(a) ==
    /\ a \in adds /\ a.st = "insert" /\ a \notin adds'
    /\ faultsLeft' = faultsLeft - 1

C5_InsertErrorChangesNothing ==
    [][\A a \in adds :
          InsertFails(a) =>
              /\ adds' = adds \ {a}
              /\ UNCHANGED <<store, books, newUrl, successMessage, timers,
                             fetch, writes>>]_vars

\* the table was empty, one append was made and its insert failed: the text
\* is still in the input, no message is shown, no record exists
C5_Witness ==
    /\ store = <<>> /\ books = <<>> /\ adds = {}
    /\ opsLeft = MaxOps - 1 /\ faultsLeft < MaxFaults
    /\ newUrl = SampleUrl /\ successMessage = "" /\ timers = 0

(***************************************************************************)
(* C6.  A drag that ends over the dragged record itself, or over nothing,  *)
(* is a no-op: local order, every book_order (local and persisted) stay    *)
(* as they were and no store write is issued.                              *)
(***************************************************************************)
C6_SelfDropIsNoOp ==
    [][\A active \in VisibleIds : \A over \in {active, NoOver} :
          DragEnd(active, over) =>
              UNCHANGED <<books, store, writes, adds, fetch>>]_vars

\* such a drag has just ended on a loaded shelf
C6_Witness == ignored /\ Len(books) >= 2 /\ writes = {}

(***************************************************************************)
(* C7.  Reorder puts the local list in its new order at once, with every   *)
(* one of its writes still pending; a write that fails neither reverts the *)
(* local order nor is issued again, and the store keeps the values it had. *)
(***************************************************************************)
\* the step in which an update comes back with an error
UpdateFails ==
    /\ faultsLeft' = faultsLeft - 1
    /\ writes # {} /\ adds' = adds /\ fetch' = fetch

C7_OptimisticNoRetry ==
    [][/\ \A active \in VisibleIds : \A over \in VisibleIds \ {active} :
            DragEnd(active, over) =>
                /\ Ids(books') # Ids(books)
                /\ store' = store
                /\ writes \subseteq writes'
                /\ Cardinality(writes' \ writes) = Len(books)
       /\ UpdateFails =>
            /\ books' = books
            /\ store' = store
            /\ writes' \subseteq writes
            /\ Cardinality(writes') = Cardinality(writes) - 1]_vars

\* the table [1, 2] was loaded and 1 dragged onto 2; the write 2:0 succeeded,
\* the write 1:1 failed and nothing is pending: the local order is 2, 1 while
\* both persisted records have book_order 0
C7_Witness ==
    /\ AtRest /\ opsLeft = MaxOps - 1 /\ faultsLeft = MaxFaults - 1
    /\ Ids(books) = <<2, 1>>
    /\ [i \in 1..Len(store) |-> store[i].book_order] = <<0, 0>>

(***************************************************************************)
(* C8.  The view starts collapsed; collapsed it shows the first min(5, n)  *)
(* records of the local list in their order, expanded the whole list; only *)
(* the toggle button changes between the two.                              *)
(***************************************************************************)
ViewShows ==
    /\ Len(visibleBooks) = IF showAll THEN Len(books) ELSE Min(5, Len(books))
    /\ \A i \in 1..Len(visibleBooks) : visibleBooks[i] = books[i]

C8_Visibility ==
    /\ ~showAll
    /\ []ViewShows
    /\ [][showAll' # showAll => Toggle]_vars

\* expanded, with a reorder of more than 5 records in flight
C8_Witness == showAll /\ Len(books) > 5 /\ writes # {}

(***************************************************************************)
(* C10.  For a reorder made at rest with no other operation until its      *)
(* writes are done: once all its writes have succeeded, in whatever order, *)
(* the persisted records in ascending book_order are the local list's ids. *)
(***************************************************************************)
C10_SoloReorderConverges ==
    (solo /\ writes = {}) => \A rows \in Select(store) : Ids(rows) = Ids(books)

(***************************************************************************)
(* C11.  Reorders are not serialised: a reorder issues its writes while    *)
(* those of an earlier one are pending and cancels none of them; every     *)
(* write that succeeds sets its record's book_order to the value it        *)
(* carries, whichever reorder it belongs to, so the write to complete last *)
(* decides; and two overlapping reorders can end, with every write         *)
(* successful, in a store whose order is not the local one.                *)
(***************************************************************************)
\* the step in which the update w is carried out
UpdateDone(w) == w \in writes /\ w \notin writes' /\ faultsLeft' = faultsLeft

C11_LastWriteWins ==
    [][/\ \A active \in VisibleIds : \A over \in VisibleIds \ {active} :
            DragEnd(active, over) => writes \subseteq writes'
       /\ \A w \in writes :
            UpdateDone(w) =>
                /\ Len(store') = Len(store)
                /\ store'[w.id].book_order = w.book_order
                /\ \A i \in 1..Len(store) : i # w.id => store'[i] = store[i]]_vars

\* two reorders were made on the loaded table, every write succeeded, nothing
\* is pending, and no listing of the store in book_order is the local order
C11_Witness ==
    /\ AtRest /\ opsLeft = MaxOps - 2 /\ faultsLeft = MaxFaults
    /\ Len(books) = Len(store)
    /\ \A i \in 1..Len(store) : store[i].comment # NoComment
    /\ \A rows \in Select(store) : Ids(rows) # Ids(books)

(***************************************************************************)
(* C12.  The select of the initial load answers with the store's records   *)
(* in ascending book_order.  When its reply is an error the local list is  *)
(* left as it is (empty, when nothing else has filled it) and the select   *)
(* is not issued again; when it is data, the local list becomes exactly    *)
(* that answer.                                                            *)
(***************************************************************************)
Ascending(rows) ==
    \A i, j \in 1..Len(rows) : i < j => rows[i].book_order <= rows[j].book_order

C12_Load ==
    [][/\ (fetch.st = "sent" /\ fetch'.st = "replied" /\ fetch'.ok) =>
            /\ Len(fetch'.rows) = Len(store)
            /\ {fetch'.rows[i] : i \in 1..Len(store)} = {store[i] : i \in 1..Len(store)}
            /\ Ascending(fetch'.rows)
       /\ (fetch.st = "replied" /\ fetch' # fetch) =>
            /\ fetch'.st = "done"
            /\ books' = IF fetch.ok THEN fetch.rows ELSE books
       /\ fetch.st = "done" => fetch'.st = "done"]_vars

\* the initial load failed on a table of MaxInit records and nothing else was
\* done: the local list is empty and no select is pending
C12_Witness ==
    /\ fetch.st = "done" /\ books = <<>> /\ Len(store) = MaxInit
    /\ opsLeft = MaxOps /\ faultsLeft = MaxFaults - 1 /\ adds = {}

(***************************************************************************)
(* C13.  The success message of an append stays until the timer that this  *)
(* append started runs.  All timers have the same delay, so they run in    *)
(* the order they were started and the timer of the latest successful      *)
(* append is the last one pending: as long as a timer is pending, the      *)
(* message is shown.                                                       *)
(***************************************************************************)
C13_MessageUntilOwnTimer == timers > 0 => successMessage = SuccessText

(***************************************************************************)
(* C14.  Reorder creates, deletes and edits no record: the drag leaves the *)
(* store alone and the local list with the same records; each of its       *)
(* writes, successful or not, leaves the local list alone and keeps every  *)
(* stored record's id, url and comment, and changes at most the book_order *)
(* of the record whose id it names.                                        *)
(***************************************************************************)
C14_ReorderFrame ==
    [][/\ \A active \in VisibleIds : \A over \in VisibleIds \ {active} :
            DragEnd(active, over) =>
                /\ store' = store
                /\ Len(books') = Len(books)
                /\ {books'[i] : i \in 1..Len(books)} = {books[i] : i \in 1..Len(books)}
       /\ \A w \in writes :
            (w \notin writes' /\ writes' \subseteq writes) =>
                /\ books' = books
                /\ Len(store') = Len(store)
                /\ \A i \in 1..Len(store) :
                     /\ store'[i].id = store[i].id
                     /\ store'[i].url = store[i].url
                     /\ store'[i].comment = store[i].comment
                     /\ i # w.id => store'[i] = store[i]]_vars

\* [1, 2, 3] after Reorder(0 -> 2) with its three writes carried out: the same
\* three records, with their url and comment, in the order 2, 3, 1
C14_Witness ==
    /\ AtRest /\ Ids(books) = <<2, 3, 1>>
    /\ store = [i \in 1..3 |-> Book(i, SampleUrl, "memo", (i + 1) % 3)]

(***************************************************************************)
(* C15.  An appended record that has appeared in the local list stays in   *)
(* it: no step removes from the local list a record that was appended      *)
(* (the records present at mount carry a comment, the appended ones none). *)
(***************************************************************************)
C15_AppendedStays ==
    [][\A i \in 1..Len(books) :
          books[i].comment = NoComment =>
              \E j \in 1..Len(books') : books'[j].id = books[i].id]_vars

(***************************************************************************)
(* extractASIN on its own: SortableBook calls it with book.url when it     *)
(* renders a book.  The inputs are the texts made of a few pieces.         *)
(***************************************************************************)
Run9 == <<"B", "0", "8", "X", "Y", "Z", "A", "B", "1">>
Run10 == <<"B", "0", "8", "X", "Y", "Z", "A", "B", "1", "2">>
Digits10 == <<"0", "1", "2", "3", "4", "5", "6", "7", "8", "9">>

Pieces == {<<"/">>, <<"?">>, <<"a">>, <<"A">>, Run9, Run10, Digits10}

RECURSIVE Texts(_)
Texts(k) ==
    IF k = 0 THEN {<<>>}
    ELSE Texts(k - 1) \cup {t \o q : t \in Texts(k - 1), q \in Pieces}

UrlInputs == {Absent} \cup {Given(t) : t \in Texts(MaxPieces)}

InitASIN ==
    /\ InitHome(0)
    /\ asinArg \in UrlInputs
    /\ asinRes = <<>>

\* const asin = extractASIN(book.url)
RenderCover ==
    /\ asinRes = <<>>
    /\ asinRes' = <<extractASIN(asinArg)>>
    /\ UNCHANGED <<store, books, newUrl, showAll, successMessage, timers, fetch,
                   adds, writes, opsLeft, faultsLeft, solo, ignored, asinArg>>

NextASIN == RenderCover

SpecASIN == InitASIN /\ [][NextASIN]_vars

(***************************************************************************)
(* C9.  extractASIN returns the first run of exactly 10 characters of      *)
(* [A-Z0-9] that stands right after a '/' and right before a '/', a '?' or *)
(* the end of the text; for a text without such a run, for the empty text  *)
(* and for an absent argument it returns null.                             *)
(***************************************************************************)
\* the text s has such a run in positions p+1 .. p+10
SegmentAfter(s, p) ==
    /\ p >= 1 /\ p + 10 <= Len(s)
    /\ s[p] = "/"
    /\ \A i \in (p + 1)..(p + 10) : s[i] \in UpperAlnum
    /\ (p + 10 < Len(s)) => s[p + 11] = "/" \/ s[p + 11] = "?"

C9_ExtractASIN ==
    asinRes # <<>> =>
        LET s == asinArg.text
            r == asinRes[1]
            P == {p \in 1..Len(s) : SegmentAfter(s, p)}
        IN  IF asinArg.present /\ P # {}
            THEN /\ r.found
                 /\ \E p \in P : /\ \A q \in P : p <= q
                                 /\ Len(r.asin) = 10
                                 /\ \A i \in 1..10 : r.asin[i] = s[p + i]
            ELSE ~r.found

\* two runs qualify, the second at the end of the text, and the first is returned
C9_Witness ==
    /\ asinArg = Given(<<"/">> \o Run10 \o <<"/">> \o Digits10)
    /\ asinRes = <<Match(Run10)>>

====
